---- MODULE Spec2Model ----
(***************************************************************************)
(* Query fan-out simulator: main.py's pipeline                             *)
(*   seed -> generate_fanout_google_genai -> export_to_csv                 *)
(*        -> load_csv_data -> create_sunburst_data -> write_image          *)
(* A character is its Unicode code point and a string is a sequence of     *)
(* code points, so that the JSON decoding, the CSV writing and the CSV     *)
(* reading are computed character by character.                           *)
(***************************************************************************)
EXTENDS Integers, Sequences, FiniteSets, TLC

(***************************************************************************)
(* Bounds of the model.                                                    *)
(***************************************************************************)
\* largest --n value (max_per_category) a run is started with
MaxCap == 2
\* longest per-category list the generation capability answers with
MaxLen == 3
\* longest record sequence create_sunburst_data is applied to directly
MaxRecords == 3
\* longest sub-query list of a category map that is exported and read back
MaxList == 2

(***************************************************************************)
(* Characters.                                                             *)
(***************************************************************************)
TAB == 9
LF == 10
CR == 13
SPACE == 32
QUOTE == 34
COMMA == 44
SLASH == 47
COLON == 58
LBRACKET == 91
BACKSLASH == 92
RBRACKET == 93
LBRACE == 123
RBRACE == 125

\* "seed", "locale", "category", "subquery": the CSV header of export_to_csv
seed_col == <<115, 101, 101, 100>>
locale_col == <<108, 111, 99, 97, 108, 101>>
category_col == <<99, 97, 116, 101, 103, 111, 114, 121>>
subquery_col == <<115, 117, 98, 113, 117, 101, 114, 121>>
HEADER == <<seed_col, locale_col, category_col, subquery_col>>

\* "categories", "Raw", "ja", "en"
categories_key == <<99, 97, 116, 101, 103, 111, 114, 105, 101, 115>>
Raw == <<82, 97, 119>>
ja == <<106, 97>>
en == <<101, 110>>

\* The eight canonical category names (the Japanese keys of the source).
\* CAT1 = "曖昧さの解消"
CAT1 == <<26326, 26151, 12373, 12398, 35299, 28040>>
\* CAT2 = "潜在ニーズの顕在化"
CAT2 == <<28508, 22312, 12491, 12540, 12474, 12398, 38997, 22312, 21270>>
\* CAT3 = "詳細深掘りの誘導（次の質問提案）"
CAT3 == <<35443, 32048, 28145, 25496, 12426, 12398, 35480, 23566, 65288,
          27425, 12398, 36074, 21839, 25552, 26696, 65289>>
\* CAT4 = "主張の賛否エビデンス収集"
CAT4 == <<20027, 24373, 12398, 36059, 21542, 12456, 12499, 12487, 12531,
          12473, 21454, 38598>>
\* CAT5 = "エンティティ取得（人・場所・組織など）"
CAT5 == <<12456, 12531, 12486, 12451, 12486, 12451, 21462, 24471, 65288,
          20154, 12539, 22580, 25152, 12539, 32068, 32340, 12394, 12393,
          65289>>
\* CAT6 = "関連性の高い文書予測"
CAT6 == <<38306, 36899, 24615, 12398, 39640, 12356, 25991, 26360, 20104,
          28204>>
\* CAT7 = "セッション文脈の維持（最近の行動・状態を反映）"
CAT7 == <<12475, 12483, 12471, 12519, 12531, 25991, 33032, 12398, 32173,
          25345, 65288, 26368, 36817, 12398, 34892, 21205, 12539, 29366,
          24907, 12434, 21453, 26144, 65289>>
\* CAT8 = "ユーザー個別化（過去検索や位置・時間などの信号を活用）"
CAT8 == <<12518, 12540, 12470, 12540, 20491, 21029, 21270, 65288, 36942,
          21435, 26908, 32034, 12420, 20301, 32622, 12539, 26178, 38291,
          12394, 12393, 12398, 20449, 21495, 12434, 27963, 29992, 65289>>
\* the canonical names in the order of the schema's "required" list
CANONICAL == <<CAT1, CAT2, CAT3, CAT4, CAT5, CAT6, CAT7, CAT8>>
CanonicalSet == {CANONICAL[i] : i \in 1..Len(CANONICAL)}

(***************************************************************************)
(* Python values, all of one record shape so that any two compare:         *)
(*   t = "dict": o is the sequence of items [k, v] in insertion order      *)
(*   t = "list": a is the sequence of elements                             *)
(*   t = "str" : s is the text;  t = "int": s is the decimal digits        *)
(*   t = "None"                                                            *)
(***************************************************************************)
PyNone == [t |-> "None", s |-> <<>>, a |-> <<>>, o |-> <<>>]
PyStr(x) == [t |-> "str", s |-> x, a |-> <<>>, o |-> <<>>]
PyInt(digits) == [t |-> "int", s |-> digits, a |-> <<>>, o |-> <<>>]
PyList(xs) == [t |-> "list", s |-> <<>>, a |-> xs, o |-> <<>>]
PyDict(items) == [t |-> "dict", s |-> <<>>, a |-> <<>>, o |-> items]

Item(k, v) == [k |-> k, v |-> v]
Keys(items) == [i \in 1..Len(items) |-> items[i].k]
KeySet(items) == {items[i].k : i \in 1..Len(items)}
HasKey(items, k) == \E i \in 1..Len(items) : items[i].k = k
\* d[k] for a key that is present
GetItem(items, k) == items[CHOOSE i \in 1..Len(items) : items[i].k = k].v
\* d[k] = v: a repeated key keeps its first position and takes the last value
SetItem(items, k, v) ==
    IF HasKey(items, k)
    THEN [i \in 1..Len(items) |->
            IF items[i].k = k THEN Item(k, v) ELSE items[i]]
    ELSE Append(items, Item(k, v))

(***************************************************************************)
(* json.loads, character by character.  Covered: objects, arrays, strings  *)
(* with the escapes \" \\ \/ \b \f \n \r \t, the literal null, unsigned    *)
(* integers, whitespace between tokens, "Extra data" after the value.      *)
(* Not covered (no response of the model holds them): \uXXXX, true/false,  *)
(* NaN/Infinity, signs, fractions and exponents.                           *)
(***************************************************************************)
EOF_CHAR == 0 - 1
At(text, i) == IF i >= 1 /\ i <= Len(text) THEN text[i] ELSE EOF_CHAR
Failed == [ok |-> FALSE, val |-> PyNone, pos |-> 0]
Parsed(v, p) == [ok |-> TRUE, val |-> v, pos |-> p]
IsWs(c) == c \in {SPACE, TAB, LF, CR}
IsDigit(c) == c >= 48 /\ c <= 57

RECURSIVE SkipWs(_, _)
SkipWs(text, i) == IF IsWs(At(text, i)) THEN SkipWs(text, i + 1) ELSE i

\* BACKSLASH table of json.decoder: the character an escape letter stands for
Unescape(e) ==
    CASE e = QUOTE -> QUOTE
      [] e = BACKSLASH -> BACKSLASH
      [] e = SLASH -> SLASH
      [] e = 98 -> 8
      [] e = 102 -> 12
      [] e = 110 -> LF
      [] e = 114 -> CR
      [] e = 116 -> TAB
      [] OTHER -> EOF_CHAR

\* py_scanstring from the character after the opening quote (strict mode)
RECURSIVE scanstring(_, _, _)
scanstring(text, i, acc) ==
    LET c == At(text, i) IN
    IF c = EOF_CHAR THEN Failed
    ELSE IF c = QUOTE THEN Parsed(PyStr(acc), i + 1)
    ELSE IF c = BACKSLASH
         THEN LET u == Unescape(At(text, i + 1)) IN
              IF u = EOF_CHAR THEN Failed
              ELSE scanstring(text, i + 2, Append(acc, u))
    ELSE IF c < SPACE THEN Failed
    ELSE scanstring(text, i + 1, Append(acc, c))

RECURSIVE ScanDigits(_, _)
ScanDigits(text, i) == IF IsDigit(At(text, i)) THEN ScanDigits(text, i + 1) ELSE i

\* NUMBER_RE restricted to (0|[1-9]\d*)
ScanNumber(text, i) ==
    LET stop == IF At(text, i) = 48 THEN i + 1 ELSE ScanDigits(text, i) IN
    Parsed(PyInt(SubSeq(text, i, stop - 1)), stop)

RECURSIVE scan_once(_, _)
RECURSIVE JSONObjectLoop(_, _, _)
RECURSIVE JSONArrayLoop(_, _, _)

\* JSONObject: i is the position after "{"
JSONObject(text, i) ==
    LET j == SkipWs(text, i) IN
    IF At(text, j) = RBRACE THEN Parsed(PyDict(<<>>), j + 1)
    ELSE IF At(text, j) = QUOTE THEN JSONObjectLoop(text, j + 1, <<>>)
    ELSE Failed

\* one "key": value member; i is the position after the key's opening quote
JSONObjectLoop(text, i, items) ==
    LET key == scanstring(text, i, <<>>) IN
    IF ~key.ok THEN Failed
    ELSE LET c == SkipWs(text, key.pos) IN
         IF At(text, c) # COLON THEN Failed
         ELSE LET v == scan_once(text, SkipWs(text, c + 1)) IN
              IF ~v.ok THEN Failed
              ELSE LET e == SkipWs(text, v.pos)
                       now == SetItem(items, key.val.s, v.val)
                   IN  IF At(text, e) = RBRACE THEN Parsed(PyDict(now), e + 1)
                       ELSE IF At(text, e) # COMMA THEN Failed
                       ELSE LET n == SkipWs(text, e + 1) IN
                            IF At(text, n) # QUOTE THEN Failed
                            ELSE JSONObjectLoop(text, n + 1, now)

\* JSONArray: i is the position after "["
JSONArray(text, i) ==
    LET j == SkipWs(text, i) IN
    IF At(text, j) = RBRACKET THEN Parsed(PyList(<<>>), j + 1)
    ELSE JSONArrayLoop(text, j, <<>>)

JSONArrayLoop(text, i, elems) ==
    LET v == scan_once(text, i) IN
    IF ~v.ok THEN Failed
    ELSE LET e == SkipWs(text, v.pos)
             now == Append(elems, v.val)
         IN  IF At(text, e) = RBRACKET THEN Parsed(PyList(now), e + 1)
             ELSE IF At(text, e) # COMMA THEN Failed
             ELSE JSONArrayLoop(text, SkipWs(text, e + 1), now)

scan_once(text, i) ==
    LET c == At(text, i) IN
    IF c = QUOTE THEN scanstring(text, i + 1, <<>>)
    ELSE IF c = LBRACE THEN JSONObject(text, i + 1)
    ELSE IF c = LBRACKET THEN JSONArray(text, i + 1)
    ELSE IF c = 110 /\ i + 3 <= Len(text)
                    /\ SubSeq(text, i, i + 3) = <<110, 117, 108, 108>>
         THEN Parsed(PyNone, i + 4)
    ELSE IF IsDigit(c) THEN ScanNumber(text, i)
    ELSE Failed

\* json.loads(text): the value, or ok = FALSE for a JSONDecodeError
json_loads(text) ==
    LET v == scan_once(text, SkipWs(text, 1)) IN
    IF ~v.ok THEN Failed
    ELSE IF SkipWs(text, v.pos) # Len(text) + 1 THEN Failed
    ELSE v

\* the Raw fallback of line 202
RawFallback(text) == PyDict(<<Item(Raw, PyList(<<PyStr(text)>>))>>)

\* Decode with line 200 returning data, not data["categories"]
Decode_ReturnsData(text) ==
    LET data == json_loads(text) IN
    IF data.ok /\ data.val.t = "dict" /\ HasKey(data.val.o, categories_key)
    THEN data.val
    ELSE RawFallback(text)

\* fanout_generator.py lines 198-202: data["categories"], or the Raw
\* fallback on any exception (JSONDecodeError, KeyError, TypeError)
Decode(text) ==
    LET data == json_loads(text) IN
    IF data.ok /\ data.val.t = "dict" /\ HasKey(data.val.o, categories_key)
    THEN GetItem(data.val.o, categories_key)
    ELSE RawFallback(text)

(***************************************************************************)
(* csv.writer of export_to_csv (dialect excel: delimiter "," , quotechar   *)
(* '"', doublequote, lineterminator CR LF, QUOTE_MINIMAL), the file opened *)
(* with newline='' so that what the writer emits is what the file holds.   *)
(***************************************************************************)
\* the concatenation of a sequence of strings (halving keeps the
\* recursion shallow)
RECURSIVE ConcatRange(_, _, _)
ConcatRange(seqs, lo, hi) ==
    IF lo > hi THEN <<>>
    ELSE IF lo = hi THEN seqs[lo]
    ELSE LET mid == (lo + hi) \div 2 IN
         ConcatRange(seqs, lo, mid) \o ConcatRange(seqs, mid + 1, hi)
Concat(seqs) == ConcatRange(seqs, 1, Len(seqs))

NeedsQuotes(f) == \E i \in 1..Len(f) : f[i] \in {COMMA, QUOTE, CR, LF}
DoubleQuotes(f) ==
    Concat([i \in 1..Len(f) |-> IF f[i] = QUOTE THEN <<QUOTE, QUOTE>> ELSE <<f[i]>>])
WriteField(f) ==
    IF NeedsQuotes(f) THEN <<QUOTE>> \o DoubleQuotes(f) \o <<QUOTE>> ELSE f
\* writer.writerow(fields): the line the row becomes
writerow(fields) ==
    IF Len(fields) = 1 /\ fields[1] = <<>> THEN <<QUOTE, QUOTE, CR, LF>>
    ELSE Concat([i \in 1..Len(fields) |->
                    IF i = 1 THEN WriteField(fields[i])
                    ELSE <<COMMA>> \o WriteField(fields[i])]) \o <<CR, LF>>

\* the text csv.writer writes for a field value: a str as it is, None as
\* the empty string, an int as its digits (a nested list or dict would be
\* written as its repr, which the model does not cover)
FieldText(v) ==
    CASE v.t = "str" -> v.s
      [] v.t = "int" -> v.s
      [] v.t = "None" -> <<>>

\* "for query in queries": what the loop iterates over.  A list yields its
\* elements, a str its characters, a dict its keys; an int or None raises
\* TypeError.
Iterable(v) == v.t \in {"list", "str", "dict"}
Iterate(v) ==
    CASE v.t = "list" -> v.a
      [] v.t = "str" -> [i \in 1..Len(v.s) |-> PyStr(<<v.s[i]>>)]
      [] v.t = "dict" -> [i \in 1..Len(v.o) |-> PyStr(v.o[i].k)]

\* the lines of one category's rows
CategoryRows(seed, locale, category, queries) ==
    Concat([i \in 1..Len(queries) |->
              writerow(<<seed, locale, category, FieldText(queries[i])>>)])

\* fanout_generator.py lines 220-222: the data rows written before the loop
\* ends or raises
RECURSIVE DataRows(_, _, _, _)
DataRows(seed, locale, items, written) ==
    IF items = <<>> THEN [raised |-> FALSE, data |-> written]
    ELSE IF ~Iterable(Head(items).v) THEN [raised |-> TRUE, data |-> written]
    ELSE DataRows(seed, locale, Tail(items),
                  written \o CategoryRows(seed, locale, Head(items).k,
                                          Iterate(Head(items).v)))

\* export_to_csv once the file is open: the header row, then the data rows;
\* categories.items() raises AttributeError when categories is not a dict.
\* The with-block closes the file on an exception, so what was written
\* before it stays in the file.
export_to_csv(seed, locale, categories) ==
    IF categories.t # "dict"
    THEN [raised |-> TRUE, data |-> writerow(HEADER)]
    ELSE DataRows(seed, locale, categories.o, writerow(HEADER))

(***************************************************************************)
(* load_csv_data: the file is opened for reading in text mode without      *)
(* newline='', so Python's universal-newlines translation turns CR LF and  *)
(* a lone CR into LF before csv.DictReader sees the text.                  *)
(***************************************************************************)
UniversalNewlines(data) ==
    LET Kept(i) == ~(data[i] = LF /\ At(data, i - 1) = CR)
        kept == SelectSeq([i \in 1..Len(data) |-> i], Kept)
    IN  [j \in 1..Len(kept) |-> IF data[kept[j]] = CR THEN LF ELSE data[kept[j]]]

\* the end-of-line mark the reader processes after the characters of a line
EOL == 0 - 2
IsNewline(c) == c = LF \/ c = CR

\* parse_save_field
SaveField(r, st) == [r EXCEPT !.fields = Append(r.fields, r.field),
                              !.field = <<>>, !.st = st]
AddChar(r, c, st) == [r EXCEPT !.field = Append(r.field, c), !.st = st]
AfterLine(c) == IF c = EOL THEN "START_RECORD" ELSE "EAT_CRNL"

\* parse_process_char of the csv module, for the excel dialect
ProcessChar(r, c) ==
    CASE r.st = "START_RECORD" ->
            IF c = EOL THEN r
            ELSE IF IsNewline(c) THEN [r EXCEPT !.st = "EAT_CRNL"]
            ELSE IF c = QUOTE THEN [r EXCEPT !.st = "IN_QUOTED_FIELD"]
            ELSE IF c = COMMA THEN SaveField(r, "START_FIELD")
            ELSE AddChar(r, c, "IN_FIELD")
      [] r.st = "START_FIELD" ->
            IF IsNewline(c) \/ c = EOL THEN SaveField(r, AfterLine(c))
            ELSE IF c = QUOTE THEN [r EXCEPT !.st = "IN_QUOTED_FIELD"]
            ELSE IF c = COMMA THEN SaveField(r, "START_FIELD")
            ELSE AddChar(r, c, "IN_FIELD")
      [] r.st = "IN_FIELD" ->
            IF IsNewline(c) \/ c = EOL THEN SaveField(r, AfterLine(c))
            ELSE IF c = COMMA THEN SaveField(r, "START_FIELD")
            ELSE AddChar(r, c, "IN_FIELD")
      [] r.st = "IN_QUOTED_FIELD" ->
            IF c = EOL THEN r
            ELSE IF c = QUOTE THEN [r EXCEPT !.st = "QUOTE_IN_QUOTED_FIELD"]
            ELSE AddChar(r, c, "IN_QUOTED_FIELD")
      [] r.st = "QUOTE_IN_QUOTED_FIELD" ->
            IF c = QUOTE THEN AddChar(r, c, "IN_QUOTED_FIELD")
            ELSE IF c = COMMA THEN SaveField(r, "START_FIELD")
            ELSE IF IsNewline(c) \/ c = EOL THEN SaveField(r, AfterLine(c))
            ELSE AddChar(r, c, "IN_FIELD")
      [] r.st = "EAT_CRNL" ->
            IF IsNewline(c) THEN r
            ELSE IF c = EOL THEN [r EXCEPT !.st = "START_RECORD"]
            ELSE [r EXCEPT !.err = TRUE]

\* a record is complete when the end of a line leaves the reader in
\* START_RECORD: Reader_iternext returns its fields and starts afresh
EndLine(r) ==
    LET e == ProcessChar(r, EOL) IN
    IF e.st = "START_RECORD" /\ ~e.err
    THEN [e EXCEPT !.rows = Append(e.rows, e.fields), !.fields = <<>>]
    ELSE e

\* one character of the translated text; a line ends after each LF
Feed(r, c) ==
    IF r.err THEN r
    ELSE LET n == ProcessChar(r, c) IN IF c = LF THEN EndLine(n) ELSE n

\* the characters lo..hi fed in order (halving keeps the recursion shallow)
RECURSIVE FeedRange(_, _, _, _)
FeedRange(text, lo, hi, r) ==
    IF lo > hi THEN r
    ELSE IF lo = hi THEN Feed(r, text[lo])
    ELSE LET mid == (lo + hi) \div 2
             left == FeedRange(text, lo, mid, r)
         IN  IF left.err THEN left ELSE FeedRange(text, mid + 1, hi, left)

\* the input is exhausted: a last line without LF ends here, and fields
\* read inside an unclosed quoted field are returned as the last record
Exhausted(text, r) ==
    LET e == IF text # <<>> /\ text[Len(text)] # LF /\ ~r.err
             THEN EndLine(r) ELSE r
    IN  IF e.st = "IN_QUOTED_FIELD" /\ ~e.err
        THEN [e EXCEPT !.rows = Append(e.rows, Append(e.fields, e.field))]
        ELSE e

\* csv.reader over the lines of the translated text
csv_reader(text) ==
    Exhausted(text,
              FeedRange(text, 1, Len(text),
                        [st |-> "START_RECORD", field |-> <<>>, fields |-> <<>>,
                         rows |-> <<>>, err |-> FALSE]))

RECURSIVE NonEmptyRows(_)
NonEmptyRows(rows) ==
    IF rows = <<>> THEN <<>>
    ELSE IF Head(rows) = <<>> THEN NonEmptyRows(Tail(rows))
    ELSE <<Head(rows)>> \o NonEmptyRows(Tail(rows))

\* the dict csv.DictReader makes of a row: dict(zip(fieldnames, row)), and
\* None (restval) for the fieldnames a short row has no value for.  The
\* extra values of a long row go under the key None (restkey), which
\* create_sunburst_data never reads and the model leaves out.
RECURSIVE ZipRow(_, _, _, _)
ZipRow(fieldnames, row, i, items) ==
    IF i > Len(fieldnames) THEN items
    ELSE ZipRow(fieldnames, row, i + 1,
                SetItem(items, fieldnames[i],
                        IF i <= Len(row) THEN PyStr(row[i]) ELSE PyNone))

\* load_csv_data(filepath) for a file holding data: the list of row dicts.
\* DictReader takes the first row it reads as the fieldnames (even an empty
\* one) and skips the empty rows after it.
load_csv_data(data) ==
    LET parsed == csv_reader(UniversalNewlines(data))
        rows == IF parsed.rows = <<>> THEN <<>>
                ELSE NonEmptyRows(Tail(parsed.rows))
    IN  IF parsed.err THEN [raised |-> TRUE, rows |-> <<>>]
        ELSE [raised |-> FALSE,
              rows |-> [i \in 1..Len(rows) |->
                          ZipRow(parsed.rows[1], rows[i], 1, <<>>)]]

(***************************************************************************)
(* create_sunburst_data.  A row is the item sequence of its dict; the      *)
(* result is the parallel arrays labels, parents, values, colors (the      *)
(* hover texts are formatted from the same label and count and are left    *)
(* out).                                                                   *)
(***************************************************************************)
ROOT_COLOR == "#E8E8E8"
DEFAULT_COLOR == "#CCCCCC"
\* CATEGORY_COLORS.get(category, "#CCCCCC")
CATEGORY_COLORS(category) ==
    CASE category = PyStr(CAT1) -> "#E74C3C"
      [] category = PyStr(CAT2) -> "#1ABC9C"
      [] category = PyStr(CAT3) -> "#3498DB"
      [] category = PyStr(CAT4) -> "#E67E22"
      [] category = PyStr(CAT5) -> "#2ECC71"
      [] category = PyStr(CAT6) -> "#F39C12"
      [] category = PyStr(CAT7) -> "#9B59B6"
      [] category = PyStr(CAT8) -> "#E91E63"
      [] OTHER -> DEFAULT_COLOR

\* lines 58-64: group the sub-queries by category, categories in first-seen
\* order, sub-queries in row order
GroupRow(groups, row) ==
    LET cat == GetItem(row, category_col)
        subq == GetItem(row, subquery_col)
    IN  IF HasKey(groups, cat)
        THEN SetItem(groups, cat, Append(GetItem(groups, cat), subq))
        ELSE Append(groups, Item(cat, <<subq>>))

RECURSIVE GroupRange(_, _, _, _)
GroupRange(csv_data, lo, hi, groups) ==
    IF lo > hi THEN groups
    ELSE IF lo = hi THEN GroupRow(groups, csv_data[lo])
    ELSE LET mid == (lo + hi) \div 2
             left == GroupRange(csv_data, lo, mid, groups)
         IN  IF Len(left) >= 0 THEN GroupRange(csv_data, mid + 1, hi, left)
             ELSE left

Node(label, parent, value, color) ==
    [label |-> label, parent |-> parent, value |-> value, color |-> color]

\* CategoryNodes with the category's value taken from its children's
\* values plus its own (an off-by-one in the count)
CategoryNodes_CountsItself(seed, category, subqueries) ==
    <<Node(category, seed, Len(subqueries) + 1, CATEGORY_COLORS(category))>>
    \o [i \in 1..Len(subqueries) |->
          Node(subqueries[i], category, 1, CATEGORY_COLORS(category))]

\* lines 80-94: a category node followed by its sub-query nodes
CategoryNodes(seed, category, subqueries) ==
    <<Node(category, seed, Len(subqueries), CATEGORY_COLORS(category))>>
    \o [i \in 1..Len(subqueries) |->
          Node(subqueries[i], category, 1, CATEGORY_COLORS(category))]

RECURSIVE SumLens(_, _)
SumLens(groups, n) ==
    IF n = 0 THEN 0 ELSE Len(groups[n].v) + SumLens(groups, n - 1)

\* a row lacks a column the function reads: KeyError
MissingColumn(csv_data) ==
    \/ ~HasKey(csv_data[1], seed_col)
    \/ ~HasKey(csv_data[1], locale_col)
    \/ \E i \in 1..Len(csv_data) :
          ~HasKey(csv_data[i], category_col) \/ ~HasKey(csv_data[i], subquery_col)

\* lines 54-98 for a sequence that is not empty
BuildTree(csv_data) ==
    IF MissingColumn(csv_data)
    THEN [raised |-> TRUE, labels |-> <<>>, parents |-> <<>>, values |-> <<>>,
          colors |-> <<>>]
    ELSE LET seed == GetItem(csv_data[1], seed_col)
             categories == GroupRange(csv_data, 1, Len(csv_data), <<>>)
             total_subqueries == SumLens(categories, Len(categories))
             nodes == <<Node(seed, PyStr(<<>>), total_subqueries, ROOT_COLOR)>>
                      \o Concat([j \in 1..Len(categories) |->
                                   CategoryNodes(seed, categories[j].k,
                                                 categories[j].v)])
         IN  [raised |-> FALSE,
              labels |-> [i \in 1..Len(nodes) |-> nodes[i].label],
              parents |-> [i \in 1..Len(nodes) |-> nodes[i].parent],
              values |-> [i \in 1..Len(nodes) |-> nodes[i].value],
              colors |-> [i \in 1..Len(nodes) |-> nodes[i].color]]

\* create_sunburst_data answering an empty sequence with a tree of the
\* root alone instead of raising
create_sunburst_data_RootOnly(csv_data) ==
    IF csv_data = <<>>
    THEN [raised |-> FALSE, labels |-> <<PyStr(<<>>)>>,
          parents |-> <<PyStr(<<>>)>>, values |-> <<0>>,
          colors |-> <<ROOT_COLOR>>]
    ELSE BuildTree(csv_data)

\* lines 51-52: an empty sequence raises ValueError
create_sunburst_data(csv_data) ==
    IF csv_data = <<>>
    THEN [raised |-> TRUE, labels |-> <<>>, parents |-> <<>>, values |-> <<>>,
          colors |-> <<>>]
    ELSE BuildTree(csv_data)

(***************************************************************************)
(* Helpers of generate_fanout_google_genai and main.                       *)
(***************************************************************************)
\* re.search(r"[U+3040-U+30FF U+3400-U+4DBF U+4E00-U+9FFF]", text)
is_japanese(text) ==
    \E i \in 1..Len(text) :
        \/ text[i] >= 12352 /\ text[i] <= 12543
        \/ text[i] >= 13312 /\ text[i] <= 19903
        \/ text[i] >= 19968 /\ text[i] <= 40959

\* str.isspace for one character
IsSpace(c) ==
    \/ c >= 9 /\ c <= 13
    \/ c >= 28 /\ c <= 32
    \/ c \in {133, 160, 5760, 8232, 8233, 8239, 8287, 12288}
    \/ c >= 8192 /\ c <= 8202

\* seed.strip()
strip(text) ==
    LET solid == {i \in 1..Len(text) : ~IsSpace(text[i])} IN
    IF solid = {} THEN <<>>
    ELSE SubSeq(text, CHOOSE i \in solid : \A j \in solid : i <= j,
                      CHOOSE i \in solid : \A j \in solid : i >= j)

\* build_prompt: the instruction text, kept as the values its f-string
\* interpolates (the rest of the text is fixed)
build_prompt(seed, locale, max_per_category) ==
    [lang |-> IF locale = ja THEN "Japanese" ELSE "English",
     seed |-> seed, locale |-> locale, max_per_category |-> max_per_category]

\* 'ja' if is_japanese(seed) else 'en'
detect_locale(seed) == IF is_japanese(seed) THEN ja ELSE en

\* categories_schema: the shape the prompt asks for.  The call passes no
\* response_schema (line 182 is commented out), so nothing in the code
\* applies this predicate; the properties below use it to say "conforming".
IsStringList(v) ==
    v.t = "list" /\ \A i \in 1..Len(v.a) : v.a[i].t = "str"
categories_schema(v) ==
    /\ v.t = "dict"
    /\ Len(v.o) = Len(CANONICAL)
    /\ KeySet(v.o) = CanonicalSet
    /\ \A i \in 1..Len(v.o) : IsStringList(v.o[i].v)

(***************************************************************************)
(* The generation capability's answers: a bounded family of response       *)
(* texts, each either the JSON text of a document or text that is not      *)
(* JSON, delivered as a stream of chunks.                                  *)
(***************************************************************************)
\* json.dumps(v, ensure_ascii=False) with sep after every "," and ":"
EscapeChar(c) ==
    CASE c = QUOTE -> <<BACKSLASH, QUOTE>>
      [] c = BACKSLASH -> <<BACKSLASH, BACKSLASH>>
      [] c = LF -> <<BACKSLASH, 110>>
      [] c = CR -> <<BACKSLASH, 114>>
      [] c = TAB -> <<BACKSLASH, 116>>
      [] OTHER -> <<c>>
DumpString(x) ==
    <<QUOTE>> \o Concat([i \in 1..Len(x) |-> EscapeChar(x[i])]) \o <<QUOTE>>

RECURSIVE Dump(_, _)
Dump(v, sep) ==
    CASE v.t = "None" -> <<110, 117, 108, 108>>
      [] v.t = "int" -> v.s
      [] v.t = "str" -> DumpString(v.s)
      [] v.t = "list" ->
            <<LBRACKET>>
            \o Concat([i \in 1..Len(v.a) |->
                  (IF i = 1 THEN <<>> ELSE <<COMMA>> \o sep) \o Dump(v.a[i], sep)])
            \o <<RBRACKET>>
      [] v.t = "dict" ->
            <<LBRACE>>
            \o Concat([i \in 1..Len(v.o) |->
                  (IF i = 1 THEN <<>> ELSE <<COMMA>> \o sep)
                  \o DumpString(v.o[i].k) \o <<COLON>> \o sep \o Dump(v.o[i].v, sep)])
            \o <<RBRACE>>

\* sub-query texts: "a", "b", "a,b", a"b, a CR b, a LF b, "", "tea", and
\* the first category's own name
tea == <<116, 101, 97>>
QueryPool == <<<<97>>, <<98>>, <<97, COMMA, 98>>, <<97, QUOTE, 98>>,
               <<97, CR, 98>>, <<97, LF, 98>>, <<>>, tea, CAT1>>
Query(i) == QueryPool[((i - 1) % Len(QueryPool)) + 1]

\* a categories object: the canonical keys in the given order, key number
\* order[j] holding the list lists[order[j]]
CategoryMap(order, lists) ==
    PyDict([j \in 1..Len(order) |->
              Item(CANONICAL[order[j]],
                   PyList([i \in 1..Len(lists[order[j]]) |->
                             PyStr(lists[order[j]][i])]))])
Identity == [j \in 1..Len(CANONICAL) |-> j]
Reversed == [j \in 1..Len(CANONICAL) |-> Len(CANONICAL) + 1 - j]
Rotated == [j \in 1..Len(CANONICAL) |-> (j % Len(CANONICAL)) + 1]

\* every category holds the same n sub-queries "a", "b", ...
Uniform(n) == CategoryMap(Identity, [c \in 1..Len(CANONICAL) |-> [i \in 1..n |-> Query(i)]])
\* keys in reverse order; the sub-queries hold the characters CSV quotes
Awkward ==
    CategoryMap(Reversed,
                [c \in 1..Len(CANONICAL) |->
                    IF c = 1 THEN <<Query(3), Query(4)>>
                    ELSE IF c = 2 THEN <<Query(5), Query(6), Query(7)>>
                    ELSE IF c = 3 THEN <<Query(1)>> ELSE <<>>])
\* sub-queries equal to the seed, to a category name, and to each other
Colliding ==
    CategoryMap(Rotated,
                [c \in 1..Len(CANONICAL) |->
                    IF c = 1 THEN <<Query(8), Query(1), Query(1)>>
                    ELSE IF c = 2 THEN <<Query(9)>> ELSE <<>>])

Document(categories) ==
    PyDict(<<Item(seed_col, PyStr(tea)), Item(locale_col, PyStr(en)),
             Item(categories_key, categories)>>)

\* documents that parse but do not have the shape of categories_schema
OneOddKey == PyDict(<<Item(<<88>>, PyList(<<PyStr(<<97>>)>>))>>)
ExtraKey == PyDict(Uniform(1).o \o <<Item(<<88>>, PyList(<<PyStr(<<98>>)>>))>>)
NumberValue == PyDict(SetItem(Uniform(1).o, CAT2, PyInt(<<53>>)))
StringValue == PyDict(SetItem(Uniform(1).o, CAT2, PyStr(<<97, 98>>)))
MixedElements ==
    PyDict(SetItem(Uniform(1).o, CAT2, PyList(<<PyInt(<<49>>), PyNone>>)))

\* "Sorry"
Sorry == <<83, 111, 114, 114, 121>>
NoSep == <<>>
Pretty == <<LF, SPACE>>

\* the response texts, with the value json.loads gives for each where the
\* text is JSON (doc = TRUE)
JsonResponse(v, sep) == [doc |-> TRUE, val |-> v, text |-> Dump(v, sep)]
TextResponse(x) == [doc |-> FALSE, val |-> PyNone, text |-> x]
Responses ==
    [n \in 1..(MaxLen + 1) |-> JsonResponse(Document(Uniform(n - 1)), NoSep)]
    \o <<JsonResponse(Document(Uniform(1)), Pretty),
         JsonResponse(Document(Awkward), NoSep),
         JsonResponse(Document(Colliding), Pretty),
         JsonResponse(Document(OneOddKey), NoSep),
         JsonResponse(Document(ExtraKey), NoSep),
         JsonResponse(Document(NumberValue), NoSep),
         JsonResponse(Document(StringValue), NoSep),
         JsonResponse(Document(MixedElements), NoSep),
         JsonResponse(Document(PyList(<<>>)), NoSep),
         JsonResponse(Document(PyNone), NoSep),
         JsonResponse(PyDict(<<Item(seed_col, PyStr(tea))>>), NoSep),
         JsonResponse(PyList(<<PyInt(<<49>>)>>), NoSep),
         TextResponse(Sorry),
         TextResponse(<<>>),
         TextResponse(Dump(Document(Uniform(1)), NoSep) \o <<SPACE>> \o Sorry),
         TextResponse(LET t == Dump(Document(Uniform(1)), NoSep)
                      IN  SubSeq(t, 1, Len(t) - 1))>>

\* the ways a text arrives: whole; in two halves around a chunk without
\* text; in three parts after a chunk whose text is empty
Splits == {1, 2, 3}
Chunks(text, k) ==
    LET n == Len(text) IN
    CASE k = 1 -> <<PyStr(text)>>
      [] k = 2 -> <<PyStr(SubSeq(text, 1, n \div 2)), PyNone,
                    PyStr(SubSeq(text, n \div 2 + 1, n))>>
      [] k = 3 -> <<PyStr(<<>>), PyStr(SubSeq(text, 1, n \div 3)),
                    PyStr(SubSeq(text, n \div 3 + 1, (2 * n) \div 3)),
                    PyStr(SubSeq(text, (2 * n) \div 3 + 1, n))>>

(***************************************************************************)
(* State of one run of main.py.                                            *)
(***************************************************************************)
VARIABLES
    pc,          \* where the run is: the next step of main, of
                 \* generate_fanout_google_genai or of create_sunburst_chart
    argv,        \* command line: seed (None when absent), locale, max_n
    env,         \* process environment: GEMINI_API_KEY set, google-genai
                 \* importable
    locale,      \* main's locale after lines 93-94
    gen,         \* locals of generate_fanout_google_genai: the stripped
                 \* seed, whether the library is imported and the client
                 \* made, the text accumulated from the stream
    stream,      \* chunks generate_content_stream has still to deliver
    requests,    \* the generation requests issued, each by its prompt
    response,    \* the response the capability answers the request with
                 \* (NoResponse before the request)
    categories,  \* what generate_fanout_google_genai returned
    csv_file,    \* the CSV artifact: whether it exists and what it holds
    csv_data,    \* load_csv_data's result
    chart,       \* create_sunburst_data's result
    png_file,    \* whether the image artifact was written
    status,      \* "running", "exit0" or "exit1"
    error,       \* what ended the run early: "" while nothing has, else
                 \* "usage" or the exception main's except caught
    complete     \* whether main printed its completion banner

vars == <<pc, argv, env, locale, gen, stream, requests, response, categories,
          csv_file, csv_data, chart, png_file, status, error, complete>>

NoChart == [raised |-> FALSE, labels |-> <<>>, parents |-> <<>>,
            values |-> <<>>, colors |-> <<>>]
NoResponse == [doc |-> FALSE, val |-> PyNone, text |-> <<>>]
NoFile == [exists |-> FALSE, data |-> <<>>]
NoGen == [seed |-> <<>>, locale |-> PyNone, imported |-> FALSE,
          client |-> FALSE, text |-> <<>>, returned |-> FALSE]

\* seeds: "", two spaces, "tea", and a padded Japanese seed " 緑茶"
Seeds == {<<>>, <<SPACE, SPACE>>, tea, <<SPACE, 32209, 33590>>}
LocaleArgs == {PyNone, PyStr(ja), PyStr(en)}

Init ==
    /\ pc = "main"
    /\ argv \in [seed : {PyNone} \cup {PyStr(x) : x \in Seeds},
                 locale : LocaleArgs,
                 max_n : 1..MaxCap]
    /\ env \in [GEMINI_API_KEY : BOOLEAN, genai_installed : BOOLEAN]
    /\ locale = <<>>
    /\ gen = NoGen
    /\ stream = <<>>
    /\ requests = <<>>
    /\ response = NoResponse
    /\ categories = PyNone
    /\ csv_file = NoFile
    /\ csv_data = <<>>
    /\ chart = NoChart
    /\ png_file = FALSE
    /\ status = "running"
    /\ error = ""
    /\ complete = FALSE

\* sys.exit(1), from the usage branch or from one of main's except blocks
Exit1(why) == pc' = "exit" /\ status' = "exit1" /\ error' = why
Continue(to) == pc' = to /\ status' = status /\ error' = error

(***************************************************************************)
(* main, lines 38-113.                                                     *)
(***************************************************************************)
\* lines 39-52: no seed argument: usage, sys.exit(1)
MainUsage ==
    /\ pc = "main" /\ argv.seed = PyNone
    /\ Exit1("usage")
    /\ UNCHANGED <<argv, env, locale, gen, stream, requests, response,
                   categories, csv_file, csv_data, chart, png_file, complete>>

\* lines 54-113: options parsed, locale detected when none was given,
\* output directory made, paths named
MainSetup ==
    /\ pc = "main" /\ argv.seed # PyNone
    /\ locale' = IF argv.locale = PyNone THEN detect_locale(argv.seed.s)
                 ELSE argv.locale.s
    /\ Continue("gen_validate")
    /\ UNCHANGED <<argv, env, gen, stream, requests, response, categories,
                   csv_file, csv_data, chart, png_file, complete>>

(***************************************************************************)
(* generate_fanout_google_genai, called from main line 118 inside the try  *)
(* whose except prints the error and exits 1.                              *)
(***************************************************************************)
\* GenValidate without the check of line 156: an empty seed goes on
GenValidate_NoCheck ==
    /\ pc = "gen_validate"
    /\ gen' = [gen EXCEPT !.seed = strip(argv.seed.s),
                          !.locale = PyStr(locale)]
    /\ Continue("gen_import")
    /\ UNCHANGED <<argv, env, locale, stream, requests, response, categories,
                   csv_file, csv_data, chart, png_file, complete>>

\* lines 155-159 for the arguments seed and loc: strip the seed; ValueError
\* when nothing is left; a locale of None is replaced by the one detected
\* on the stripped seed, any other is kept
GenEnter(seed, loc) ==
    /\ LET stripped == strip(seed) IN
       IF stripped = <<>>
       THEN Exit1("ValueError: empty seed") /\ gen' = gen
       ELSE /\ gen' = [gen EXCEPT
                         !.seed = stripped,
                         !.locale = IF loc = PyNone
                                    THEN PyStr(detect_locale(stripped))
                                    ELSE loc]
            /\ Continue("gen_import")
    /\ UNCHANGED <<argv, env, locale, stream, requests, response, categories,
                   csv_file, csv_data, chart, png_file, complete>>

\* the call of main line 118: seed as given on the command line, and main's
\* locale, which lines 93-94 of main have already made 'ja' or 'en'
GenValidate ==
    /\ pc = "gen_validate"
    /\ GenEnter(argv.seed.s, PyStr(locale))

\* a call by another caller, which may leave the locale out (None)
GenCall ==
    /\ pc = "gen_call"
    /\ GenEnter(argv.seed.s, argv.locale)

\* lines 161-165: import the library; RuntimeError when it is missing
GenImport ==
    /\ pc = "gen_import"
    /\ IF env.genai_installed
       THEN /\ gen' = [gen EXCEPT !.imported = TRUE]
            /\ Continue("gen_client")
       ELSE Exit1("RuntimeError: google-genai is not installed") /\ gen' = gen
    /\ UNCHANGED <<argv, env, locale, stream, requests, response, categories,
                   csv_file, csv_data, chart, png_file, complete>>

\* line 167: genai.Client(api_key=os.environ.get("GEMINI_API_KEY")).  The
\* function does not look at the value it reads: with the variable unset
\* it hands None to the library, and what the library then does is not the
\* function's: it may make a client (from other credentials it finds) ...
GenClient ==
    /\ pc = "gen_client"
    /\ gen' = [gen EXCEPT !.client = TRUE]
    /\ Continue("gen_request")
    /\ UNCHANGED <<argv, env, locale, stream, requests, response, categories,
                   csv_file, csv_data, chart, png_file, complete>>

\* ... or raise, which main's except turns into exit 1
GenClientRaises ==
    /\ pc = "gen_client" /\ ~env.GEMINI_API_KEY
    /\ Exit1("library: no credential")
    /\ UNCHANGED <<argv, env, locale, gen, stream, requests, response,
                   categories, csv_file, csv_data, chart, png_file, complete>>

\* lines 169-194: settings, prompt, and the one call of
\* generate_content_stream; the capability answers with any response of
\* the family, split into chunks in any of the ways
GenRequest ==
    /\ pc = "gen_request"
    /\ requests' = Append(requests, build_prompt(gen.seed, gen.locale.s,
                                              argv.max_n))
    /\ \E r \in 1..Len(Responses), k \in Splits :
          /\ response' = Responses[r]
          /\ stream' = Chunks(response'.text, k)
    /\ Continue("gen_stream")
    /\ UNCHANGED <<argv, env, locale, gen, categories, csv_file, csv_data,
                   chart, png_file, complete>>

\* lines 194-196: the next chunk; its text is appended unless it has none
\* or an empty one
GenChunk ==
    /\ pc = "gen_stream" /\ stream # <<>>
    /\ LET chunk == Head(stream) IN
       gen' = IF chunk.t = "str" /\ chunk.s # <<>>
              THEN [gen EXCEPT !.text = gen.text \o chunk.s]
              ELSE gen
    /\ stream' = Tail(stream)
    /\ UNCHANGED <<pc, argv, env, locale, requests, response, categories,
                   csv_file, csv_data, chart, png_file, status, error, complete>>

\* the capability's transport fails while the stream is read: the
\* exception leaves the function and main exits 1
GenStreamRaises ==
    /\ pc = "gen_stream" /\ stream # <<>>
    /\ Exit1("library: transport error")
    /\ UNCHANGED <<argv, env, locale, gen, stream, requests, response,
                   categories, csv_file, csv_data, chart, png_file, complete>>

\* lines 198-202: the stream has ended; decode the text and return
GenDecode ==
    /\ pc = "gen_stream" /\ stream = <<>>
    /\ categories' = Decode(gen.text)
    /\ gen' = [gen EXCEPT !.returned = TRUE]
    /\ Continue("export")
    /\ UNCHANGED <<argv, env, locale, stream, requests, response,
                   csv_file, csv_data, chart, png_file, complete>>

(***************************************************************************)
(* main line 127: export_to_csv, in the same try as the generation.        *)
(***************************************************************************)
\* the file opens (created or truncated) and is written until the writing
\* ends or raises
ExportCsv ==
    /\ pc = "export"
    /\ LET out == export_to_csv(argv.seed.s, locale, categories) IN
       /\ csv_file' = [exists |-> TRUE, data |-> out.data]
       /\ IF out.raised THEN Exit1("AttributeError or TypeError in export_to_csv")
          ELSE Continue("chart_load")
    /\ UNCHANGED <<argv, env, locale, gen, stream, requests, response,
                   categories, csv_data, chart, png_file, complete>>

\* open() raises (the path cannot be written): no file
ExportOpenRaises ==
    /\ pc = "export"
    /\ Exit1("OSError: open")
    /\ UNCHANGED <<argv, env, locale, gen, stream, requests, response,
                   categories, csv_file, csv_data, chart, png_file, complete>>

(***************************************************************************)
(* create_sunburst_chart, called from main line 137 inside the second try. *)
(***************************************************************************)
\* line 119: load_csv_data
ChartLoad ==
    /\ pc = "chart_load"
    /\ LET got == load_csv_data(csv_file.data) IN
       /\ csv_data' = got.rows
       /\ IF got.raised THEN Exit1("csv.Error")
          ELSE Continue("chart_build")
    /\ UNCHANGED <<argv, env, locale, gen, stream, requests, response,
                   categories, csv_file, chart, png_file, complete>>

\* line 120: create_sunburst_data; its ValueError or KeyError leaves
\* create_sunburst_chart before the figure is made
ChartBuild ==
    /\ pc = "chart_build"
    /\ chart' = create_sunburst_data(csv_data)
    /\ IF chart'.raised THEN Exit1("ValueError or KeyError in create_sunburst_data")
       ELSE Continue("chart_render")
    /\ UNCHANGED <<argv, env, locale, gen, stream, requests, response,
                   categories, csv_file, csv_data, png_file, complete>>

\* lines 125-162: the figure is made and write_image writes the PNG
ChartRender ==
    /\ pc = "chart_render"
    /\ png_file' = TRUE
    /\ Continue("complete")
    /\ UNCHANGED <<argv, env, locale, gen, stream, requests, response,
                   categories, csv_file, csv_data, chart, complete>>

\* the renderer or the write fails: main's second except exits 1
ChartRenderRaises ==
    /\ pc = "chart_render"
    /\ Exit1("render error")
    /\ UNCHANGED <<argv, env, locale, gen, stream, requests, response,
                   categories, csv_file, csv_data, chart, png_file, complete>>

\* lines 147-152: the completion banner; main returns
MainComplete ==
    /\ pc = "complete"
    /\ complete' = TRUE
    /\ pc' = "exit"
    /\ status' = "exit0"
    /\ error' = error
    /\ UNCHANGED <<argv, env, locale, gen, stream, requests, response,
                   categories, csv_file, csv_data, chart, png_file>>

Next ==
    \/ MainUsage \/ MainSetup
    \/ GenValidate \/ GenImport \/ GenClient \/ GenClientRaises
    \/ GenRequest \/ GenChunk \/ GenStreamRaises \/ GenDecode
    \/ ExportCsv \/ ExportOpenRaises
    \/ ChartLoad \/ ChartBuild \/ ChartRender \/ ChartRenderRaises
    \/ MainComplete

Spec == Init /\ [][Next]_vars

(***************************************************************************)
(* create_sunburst_data applied directly to a record sequence, as          *)
(* visualize_sunburst.py's own entry point does after loading any CSV.     *)
(***************************************************************************)
Row(seed, category, subquery) ==
    <<Item(seed_col, PyStr(seed)), Item(locale_col, PyStr(en)),
      Item(category_col, PyStr(category)), Item(subquery_col, PyStr(subquery))>>
\* categories and sub-queries that may coincide with each other and with
\* the seed "tea"
BuildRows == {Row(tea, c, q) : c \in {CAT1, Raw, tea}, q \in {<<97>>, tea, CAT1}}
RecordSequences == UNION {[1..n -> BuildRows] : n \in 0..MaxRecords}

InitBuild ==
    /\ pc = "chart_build"
    /\ csv_data \in RecordSequences
    /\ argv = [seed |-> PyStr(tea), locale |-> PyStr(en), max_n |-> MaxCap]
    /\ env = [GEMINI_API_KEY |-> TRUE, genai_installed |-> TRUE]
    /\ locale = en
    /\ gen = NoGen
    /\ stream = <<>>
    /\ requests = <<>>
    /\ response = NoResponse
    /\ categories = PyNone
    /\ csv_file = NoFile
    /\ chart = NoChart
    /\ png_file = FALSE
    /\ status = "running"
    /\ error = ""
    /\ complete = FALSE

NextBuild == ChartBuild

SpecBuild == InitBuild /\ [][NextBuild]_vars

(***************************************************************************)
(* export_to_csv, load_csv_data and create_sunburst_data in a row, on a    *)
(* category map with the eight canonical keys.                             *)
(***************************************************************************)
\* the strings "a", "b", "a,b", a"b, a CR b, a LF b and ""
ListPool == {Query(i) : i \in 1..7}
QueryLists(longest) == UNION {[1..n -> ListPool] : n \in 1..longest}
\* one category holds any list, the next one nothing, "a" or "a", "b", the
\* others nothing; the keys in schema order, reversed or rotated
RoundTripMaps ==
    {CategoryMap(order,
                 [c \in 1..Len(CANONICAL) |->
                    IF c = busy THEN list
                    ELSE IF c = (busy % Len(CANONICAL)) + 1
                         THEN [i \in 1..more |-> Query(i)]
                    ELSE <<>>]) :
        order \in {Identity, Reversed, Rotated},
        busy \in 1..Len(CANONICAL),
        list \in QueryLists(MaxList),
        more \in 0..2}
    \cup {CategoryMap(Reversed, [c \in 1..Len(CANONICAL) |-> <<Query(1), Query(2)>>])}

InitRoundTrip ==
    /\ pc = "export"
    /\ categories \in RoundTripMaps
    /\ argv = [seed |-> PyStr(tea), locale |-> PyStr(en), max_n |-> MaxCap]
    /\ env = [GEMINI_API_KEY |-> TRUE, genai_installed |-> TRUE]
    /\ locale = en
    /\ gen = NoGen
    /\ stream = <<>>
    /\ requests = <<>>
    /\ response = NoResponse
    /\ csv_file = NoFile
    /\ csv_data = <<>>
    /\ chart = NoChart
    /\ png_file = FALSE
    /\ status = "running"
    /\ error = ""
    /\ complete = FALSE

NextRoundTrip == ExportCsv \/ ChartLoad \/ ChartBuild

SpecRoundTrip == InitRoundTrip /\ [][NextRoundTrip]_vars

(***************************************************************************)
(* The locale default on its own: main up to its call of the generator,    *)
(* and a call of generate_fanout_google_genai by a caller that may leave   *)
(* the locale out, on seeds over an alphabet with a space, an ASCII        *)
(* letter, and Japanese characters inside and outside the ranges of the    *)
(* pattern of line 56 (hiragana U+3042, katakana U+30A2, the ideographs    *)
(* U+3400 and U+7DD1, halfwidth katakana U+FF76, the ideograph U+20BB7).   *)
(***************************************************************************)
LocaleAlphabet == {SPACE, 97, 12354, 12450, 13312, 32209, 65398, 134071}
LocaleSeeds == UNION {[1..n -> LocaleAlphabet] : n \in 0..MaxLen}

InitLocale ==
    /\ pc \in {"main", "gen_call"}
    /\ argv \in [seed : {PyStr(x) : x \in LocaleSeeds},
                 locale : LocaleArgs,
                 max_n : {MaxCap}]
    /\ env = [GEMINI_API_KEY |-> TRUE, genai_installed |-> TRUE]
    /\ locale = <<>>
    /\ gen = NoGen
    /\ stream = <<>>
    /\ requests = <<>>
    /\ response = NoResponse
    /\ categories = PyNone
    /\ csv_file = NoFile
    /\ csv_data = <<>>
    /\ chart = NoChart
    /\ png_file = FALSE
    /\ status = "running"
    /\ error = ""
    /\ complete = FALSE

NextLocale == MainSetup \/ GenValidate \/ GenCall

SpecLocale == InitLocale /\ [][NextLocale]_vars

(***************************************************************************)
(* Properties.                                                             *)
(***************************************************************************)
\* the response the capability streamed, and the categories member of the
\* document it is the JSON text of (when it is one and has that member)
Sent == response
SentHasCategories ==
    Sent.doc /\ Sent.val.t = "dict" /\ HasKey(Sent.val.o, categories_key)
SentCategories == GetItem(Sent.val.o, categories_key)
EightCanonicalKeys(v) ==
    v.t = "dict" /\ Len(v.o) = Len(CANONICAL) /\ KeySet(v.o) = CanonicalSet

\* C1 (decoding policy): once generate_fanout_google_genai has returned, the
\* text it decoded is the chunk texts concatenated in arrival order; if
\* that text is a JSON document whose categories object has the eight
\* canonical keys, the returned map has exactly those keys, in the same
\* order, each with the document's list unchanged; if the text is not JSON,
\* the returned map is {"Raw": [text]} with the text unmodified.
C1_DecodingPolicy ==
    gen.returned =>
        /\ gen.text = Sent.text
        /\ (SentHasCategories /\ EightCanonicalKeys(SentCategories))
              => /\ EightCanonicalKeys(categories)
                 /\ Keys(categories.o) = Keys(SentCategories.o)
                 /\ \A i \in 1..Len(categories.o) :
                        categories.o[i].v = SentCategories.o[i].v
        /\ ~Sent.doc => categories = RawFallback(Sent.text)

\* C1 witness: a document with the keys in reverse order and quoted,
\* escaped sub-queries was streamed in several chunks and decoded
C1_Witness ==
    /\ gen.returned
    /\ categories = Awkward
    /\ pc = "export"

\* C2 (closed taxonomy), as claimed: the returned map's key set is the
\* eight canonical names or the single key Raw, and a response that parses
\* but does not have the schema's shape yields the Raw fallback holding the
\* whole text.
C2_ClosedTaxonomy ==
    gen.returned =>
        /\ categories.t = "dict"
        /\ EightCanonicalKeys(categories) \/ Keys(categories.o) = <<Raw>>
        /\ ~(SentHasCategories /\ categories_schema(SentCategories))
              => categories = RawFallback(Sent.text)

\* C3 (per-category cap), as claimed: every list of the returned map has at
\* most max_per_category elements.
C3_PerCategoryCap ==
    (gen.returned /\ categories.t = "dict") =>
        \A i \in 1..Len(categories.o) :
            categories.o[i].v.t = "list"
                => Len(categories.o[i].v.a) <= argv.max_n

(***************************************************************************)
(* The tree create_sunburst_data is to build, read off the records: the    *)
(* distinct categories in first-seen order, the records of each, and the   *)
(* places of the nodes in the arrays.                                      *)
(***************************************************************************)
CategoryOf(i) == GetItem(csv_data[i], category_col)
SubqueryOf(i) == GetItem(csv_data[i], subquery_col)
FirstSeen ==
    LET IsFirst(i) == \A j \in 1..(i - 1) : CategoryOf(j) # CategoryOf(i)
    IN  SelectSeq([i \in 1..Len(csv_data) |-> i], IsFirst)
NumCategories == Len(FirstSeen)
RecordsOf(j) ==
    {i \in 1..Len(csv_data) : CategoryOf(i) = CategoryOf(FirstSeen[j])}
\* index of category j's node: after the root, the earlier categories and
\* their leaves
CategoryIndex(j) ==
    1 + j + Cardinality({i \in 1..Len(csv_data) :
                            \E k \in 1..(j - 1) : i \in RecordsOf(k)})
LeafIndexes(j) ==
    (CategoryIndex(j) + 1)..(CategoryIndex(j) + Cardinality(RecordsOf(j)))
RECURSIVE SumCategoryValues(_)
SumCategoryValues(j) ==
    IF j = 0 THEN 0
    ELSE chart.values[CategoryIndex(j)] + SumCategoryValues(j - 1)
Built == pc = "chart_render" /\ ~chart.raised

\* C4 (value propagation): for a non-empty record sequence, every leaf has
\* value 1, every category node's value is the number of leaves emitted
\* under it, which is the number of records of that category, and the
\* root's value is the sum of the category values, which is the number of
\* records.
C4_ValuePropagation ==
    Built =>
        /\ Len(chart.values) = 1 + NumCategories + Len(csv_data)
        /\ Len(chart.labels) = Len(chart.values)
        /\ chart.values[1] = SumCategoryValues(NumCategories)
        /\ chart.values[1] = Len(csv_data)
        /\ \A j \in 1..NumCategories :
              /\ chart.labels[CategoryIndex(j)] = CategoryOf(FirstSeen[j])
              /\ chart.values[CategoryIndex(j)] = Cardinality(RecordsOf(j))
              /\ chart.values[CategoryIndex(j)] = Cardinality(LeafIndexes(j))
              /\ \A i \in LeafIndexes(j) : chart.values[i] = 1

\* C4 witness: a tree of two categories, one of them with two leaves
C4_Witness ==
    /\ Built
    /\ NumCategories = 2
    /\ \E j \in 1..NumCategories : Cardinality(RecordsOf(j)) = 2

\* the nodes a parent entry identifies: those whose label it equals
Identified(parent) ==
    {i \in 1..Len(chart.labels) : chart.labels[i] = parent}

\* C5 (tree shape), as claimed: the root has the empty parent, every
\* category node's parent entry identifies the root and only the root, and
\* every leaf's parent entry identifies exactly the category node the leaf
\* was emitted under.
C5_TreeShape ==
    Built =>
        /\ chart.parents[1] = PyStr(<<>>)
        /\ \A j \in 1..NumCategories :
              /\ Identified(chart.parents[CategoryIndex(j)]) = {1}
              /\ \A i \in LeafIndexes(j) :
                    Identified(chart.parents[i]) = {CategoryIndex(j)}

\* the labels and parents a category map is to come back as: the seed,
\* then every category with at least one element, in the map's order,
\* each followed by its elements in list order
NonEmptyItems == SelectSeq(categories.o, LAMBDA it : it.v.a # <<>>)
ExpectedLabels ==
    <<argv.seed>>
    \o Concat([j \in 1..Len(NonEmptyItems) |->
                 <<PyStr(NonEmptyItems[j].k)>> \o NonEmptyItems[j].v.a])
ExpectedParents ==
    <<PyStr(<<>>)>>
    \o Concat([j \in 1..Len(NonEmptyItems) |->
                 <<argv.seed>>
                 \o [i \in 1..Len(NonEmptyItems[j].v.a) |->
                       PyStr(NonEmptyItems[j].k)]])
RECURSIVE TotalElements(_)
TotalElements(n) ==
    IF n = 0 THEN 0 ELSE Len(categories.o[n].v.a) + TotalElements(n - 1)

\* C6 (export-then-build round trip), as claimed: the tree's category
\* nodes are the map's non-empty categories in the map's order, the leaves
\* under each are its elements in list order, and the node count is
\* 1 + non-empty categories + elements.
C6_RoundTrip ==
    Built =>
        /\ chart.labels = ExpectedLabels
        /\ chart.parents = ExpectedParents
        /\ Len(chart.labels)
              = 1 + Len(NonEmptyItems) + TotalElements(Len(categories.o))

\* the errors of the generation call: validation, dependency,
\* configuration and transport
GenerationErrors ==
    {"ValueError: empty seed", "RuntimeError: google-genai is not installed",
     "library: no credential", "library: transport error"}
IsFallback == gen.returned /\ categories = RawFallback(gen.text)

\* C7 (artifact and exit ordering), as claimed: the CSV is written only
\* after the generation call has returned a map, and the image only after
\* the CSV; a validation, configuration or generation error ends the run
\* with exit 1 and neither artifact; after a decode fallback only an I/O
\* failure (opening the CSV, rendering) ends the run early; a rendering
\* failure ends the run with exit 1, the CSV written and no image;
\* completion is reported only with both artifacts written.
C7_ArtifactOrdering ==
    /\ csv_file.exists => (gen.returned /\ categories.t = "dict")
    /\ png_file => csv_file.exists
    /\ error \in GenerationErrors
          => (status = "exit1" /\ ~csv_file.exists /\ ~png_file)
    /\ (IsFallback /\ status = "exit1")
          => error \in {"OSError: open", "render error"}
    /\ error = "render error"
          => (status = "exit1" /\ csv_file.exists /\ ~png_file)
    /\ complete => (csv_file.exists /\ png_file /\ status = "exit0")

\* the call of generate_fanout_google_genai is over: it raised or returned
GenerationOver ==
    argv.seed # PyNone /\ pc \notin {"main", "gen_validate", "gen_import",
                                     "gen_client", "gen_request", "gen_stream"}

\* C8 (requests per invocation), as claimed: an empty seed raises before
\* the library is loaded, a client made or a request issued; otherwise
\* exactly one request is issued.
C8_ExactlyOneRequest ==
    GenerationOver =>
        IF strip(argv.seed.s) = <<>>
        THEN requests = <<>> /\ ~gen.imported /\ ~gen.client
        ELSE Len(requests) = 1

\* C8 as amended: an empty seed raises before the library is loaded, a
\* client made or a request issued; otherwise at most one request is ever
\* issued, exactly one whenever the client was made, and a call that
\* returned (with the decoded map or with the Raw fallback) issued exactly
\* one.
C8_AtMostOneRequest ==
    /\ Len(requests) <= 1
    /\ requests # <<>> => (gen.imported /\ gen.client /\ gen.seed # <<>>)
    /\ GenerationOver =>
          /\ strip(argv.seed.s) = <<>>
                => (requests = <<>> /\ ~gen.imported /\ ~gen.client
                    /\ error = "ValueError: empty seed")
          /\ gen.client => Len(requests) = 1
          /\ gen.returned => Len(requests) = 1

\* C8 witness: the text did not decode, the Raw fallback was returned and
\* the run went on to its end with the one request
C8_Witness ==
    /\ pc = "exit"
    /\ IsFallback
    /\ Len(requests) = 1

\* C9 (missing credential), as claimed: with GEMINI_API_KEY unset no request
\* is issued and no artifact is produced, and once the call is over it has
\* raised.
C9_MissingCredential ==
    ~env.GEMINI_API_KEY =>
        /\ requests = <<>>
        /\ ~csv_file.exists /\ ~png_file
        /\ GenerationOver => status = "exit1"

\* create_sunburst_data has been called: it raised or returned
ChartBuilt ==
    \/ pc \in {"chart_render", "complete"}
    \/ error \in {"ValueError or KeyError in create_sunburst_data", "render error"}
    \/ complete

\* C10 (empty hierarchy): create_sunburst_data applied to an empty record
\* sequence raises, and a tree it returns is never the root alone; a CSV of
\* the header and no data rows never reaches the renderer and no image is
\* written.
C10_EmptyHierarchy ==
    /\ (ChartBuilt /\ csv_data = <<>>)
          => (chart.raised /\ status = "exit1" /\ ~png_file /\ ~complete
              /\ error = "ValueError or KeyError in create_sunburst_data")
    /\ (ChartBuilt /\ ~chart.raised) => Len(chart.labels) > 1
    /\ (csv_file.exists /\ csv_file.data = writerow(HEADER))
          => (pc \notin {"chart_render", "complete"} /\ ~png_file /\ ~complete)

\* C10 witness: all eight lists were empty, the CSV holds the header alone,
\* and the run ended in create_sunburst_data's error
C10_Witness ==
    /\ pc = "exit"
    /\ categories = Uniform(0)
    /\ csv_file.exists /\ csv_file.data = writerow(HEADER)
    /\ chart.raised
    /\ error = "ValueError or KeyError in create_sunburst_data"

\* a code point of one of the scripts the claim names, in any block that
\* encodes it: hiragana (U+3041-309F), katakana (U+30A0-30FF, phonetic
\* extensions U+31F0-31FF, halfwidth forms U+FF66-FF9F, kana supplement and
\* extensions U+1AFF0-1B16F), CJK ideographs (U+3400-4DBF, U+4E00-9FFF,
\* compatibility U+F900-FAFF, extensions B and later U+20000-323AF)
JapaneseScript(c) ==
    \/ c >= 12353 /\ c <= 12447
    \/ c >= 12448 /\ c <= 12543
    \/ c >= 12784 /\ c <= 12799
    \/ c >= 65382 /\ c <= 65439
    \/ c >= 110576 /\ c <= 110959
    \/ c >= 13312 /\ c <= 19903
    \/ c >= 19968 /\ c <= 40959
    \/ c >= 63744 /\ c <= 64255
    \/ c >= 131072 /\ c <= 205743
AsciiOnly(text) == \A i \in 1..Len(text) : text[i] <= 127
HasJapaneseScript(text) == \E i \in 1..Len(text) : JapaneseScript(text[i])
\* main has been through lines 93-94; the generator has been through 158-159
MainLocaleSet == locale # <<>>
GenLocaleSet == gen.locale # PyNone
\* the locale argument the generator was called with
Passed == IF MainLocaleSet THEN PyStr(locale) ELSE argv.locale

\* C11 (locale detection), as claimed: is_japanese has a Boolean value on
\* the seed; where main or the generator was given no locale, the locale it
\* settles on is en when the seed is ASCII-only and ja when the seed holds a
\* hiragana, katakana or CJK ideograph code point of any block; where a
\* locale was given, that locale is the one kept.
C11_LocaleDetection ==
    /\ argv.seed # PyNone => is_japanese(argv.seed.s) \in BOOLEAN
    /\ MainLocaleSet =>
         IF argv.locale = PyNone
         THEN /\ AsciiOnly(argv.seed.s) => locale = en
              /\ HasJapaneseScript(argv.seed.s) => locale = ja
         ELSE locale = argv.locale.s
    /\ GenLocaleSet =>
         IF Passed = PyNone
         THEN /\ AsciiOnly(argv.seed.s) => gen.locale = PyStr(en)
              /\ HasJapaneseScript(argv.seed.s) => gen.locale = PyStr(ja)
         ELSE gen.locale = Passed

====
